---- MODULE Spec2Model ----
(***************************************************************************)
(* Model of update_data.py: download_data (one CSV per ticker) followed by *)
(* generate_json (weekly candles and rolling correlations -> data.json).   *)
(*                                                                         *)
(* Dates are day numbers; day 0 is a Monday.  Prices are positive integers *)
(* in thousandths of the quote currency.  A float NaN (an empty CSV cell) *)
(* is the value NaN, a JSON null is the value Null.  Returns are kept in   *)
(* hundredths (percent).  A Pearson coefficient is kept as NaN when it is  *)
(* undefined (a series of the window has zero variance) and as the sign of *)
(* the covariance otherwise.                                               *)
(***************************************************************************)
EXTENDS Integers, Sequences, FiniteSets

VARIABLES
  csv,        \* data/<name>.csv for every ticker name: [exists, rows]
  json,       \* data.json: [exists, docs] (docs: the documents in the file)
  padFill,    \* whether the installed pandas forward-fills in pct_change()
  pc,         \* position of the script: download, gen_load, gen_resample,
              \* gen_returns, gen_build, gen_write, done
  i,          \* download_data: 1-based position in TICKERS of the next ticker
  attempted,  \* download_data: the names whose download was started, in order
  fetch,      \* download_data: outcome of the last iteration and the frame it got
  dfs,        \* generate_json: the frames read from the CSVs that exist
  btc_weekly, \* generate_json: BTC's weekly bars, week label -> bar
  weekly_closes, \* generate_json: name -> (week label -> close)
  combined,   \* generate_json: the table of weekly closes [index, cols]
  returns,    \* generate_json: the table of weekly returns [index, cols]
  output,     \* generate_json: <<the document built in memory>>, <<>> before
  genResult,  \* generate_json: none, aborted (no BTC), raised, written
  jsonBefore, \* data.json as it was when the current generate_json started
  runs        \* how many times generate_json was started

vars == <<csv, json, padFill, pc, i, attempted, fetch, dfs, btc_weekly, weekly_closes,
          combined, returns, output, genResult, jsonBefore, runs>>

\* the locals of generate_json
locals == <<dfs, btc_weekly, weekly_closes, combined, returns, output>>

-----------------------------------------------------------------------------
(* Config (update_data.py:19-33) *)

TICKERS == <<"BTC", "SPY", "QQQ", "IGV", "GLD", "DXY">>

Names == {TICKERS[k] : k \in 1..Len(TICKERS)}

CORRELATION_ASSETS == <<"SPY", "QQQ", "IGV", "GLD", "DXY">>

Assets == {CORRELATION_ASSETS[k] : k \in 1..Len(CORRELATION_ASSETS)}

CORRELATION_PERIODS == <<13, 26, 52>>

NaN == -999999

Null == -999998

(* fixed-point resolution of a return: 100 = 1.00 *)
RetScale == 100

-----------------------------------------------------------------------------
(* Bounds of the model *)

\* the longest series has MaxWeeks weekly closes
MaxWeeks == 54

\* generate_json is started at most MaxRuns times in the aggregation-only runs
MaxRuns == 2

-----------------------------------------------------------------------------
(* Files and frames *)

NoFile == [exists |-> FALSE, rows |-> <<>>]

File(rows) == [exists |-> TRUE, rows |-> rows]

Min(S) == CHOOSE x \in S : \A y \in S : x <= y

Max(S) == 0 - Min({0 - x : x \in S})

RECURSIVE Sum(_, _, _)
\* f[lo] + ... + f[hi]
Sum(f, lo, hi) ==
  IF lo > hi THEN 0
  ELSE IF lo = hi THEN f[lo]
  ELSE LET mid == (lo + hi) \div 2 IN Sum(f, lo, mid) + Sum(f, mid + 1, hi)

RECURSIVE SortedIn(_, _, _)
\* the elements of S, all within lo..hi, in ascending order
SortedIn(S, lo, hi) ==
  IF S = {} THEN <<>>
  ELSE IF Cardinality(S) = 1 THEN <<CHOOSE x \in S : TRUE>>
  ELSE LET mid == (lo + hi) \div 2
       IN SortedIn({x \in S : x <= mid}, lo, mid) \o SortedIn({x \in S : x > mid}, mid + 1, hi)

\* the elements of a finite set of integers in ascending order
SortedSeq(S) == IF S = {} THEN <<>> ELSE SortedIn(S, Min(S), Max(S))

Restrict(f, S) == [x \in S |-> f[x]]

-----------------------------------------------------------------------------
(* generate_json: reading and resampling *)

RECURSIVE RowsIn(_, _, _, _)
\* the rows at positions ks, whose dates lie in lo..hi, in the order of their dates
RowsIn(rows, ks, lo, hi) ==
  IF ks = {} THEN <<>>
  ELSE IF Cardinality(ks) = 1 \/ lo = hi THEN <<rows[CHOOSE k \in ks : TRUE]>>
  ELSE LET mid == (lo + hi) \div 2
       IN RowsIn(rows, {k \in ks : rows[k].Date <= mid}, lo, mid)
            \o RowsIn(rows, {k \in ks : rows[k].Date > mid}, mid + 1, hi)

\* df.sort_values('Date').reset_index(drop=True): the rows in the order of
\* their dates (a daily series has one row per date)
sort_values(rows) ==
  IF \A k \in 1..(Len(rows) - 1) : rows[k].Date <= rows[k + 1].Date
  THEN rows
  ELSE LET dates == {rows[k].Date : k \in 1..Len(rows)}
       IN RowsIn(rows, 1..Len(rows), Min(dates), Max(dates))

\* pd.read_csv of every CSV that exists, sorted by date
ReadAll(files) == [n \in {m \in Names : files[m].exists} |-> sort_values(files[n].rows)]

\* 'W-MON', label='left', closed='left': the bucket [Monday, next Monday) of day d,
\* labelled with its Monday
WeekOf(d) == d - (d % 7)

\* the labels of the bins resample() makes: every Monday from the first row's
\* week to the last row's week, whether or not a row falls in it
Bins(df) ==
  IF df = <<>> THEN {}
  ELSE LET first == WeekOf(df[1].Date)
           last == WeekOf(df[Len(df)].Date)
       IN {first + 7 * k : k \in 0..((last - first) \div 7)}

\* the positions of the rows of bin w
RowsOf(df, w) == {k \in 1..Len(df) : WeekOf(df[k].Date) = w}

\* the positions among ks whose column col holds a value (aggregations skip NaN)
Valid(df, ks, col) == {k \in ks : df[k][col] # NaN}

AggFirst(df, ks, col) ==
  LET v == Valid(df, ks, col) IN IF v = {} THEN NaN ELSE df[Min(v)][col]

AggLast(df, ks, col) ==
  LET v == Valid(df, ks, col) IN IF v = {} THEN NaN ELSE df[Max(v)][col]

AggMax(df, ks, col) ==
  LET v == Valid(df, ks, col) IN IF v = {} THEN NaN ELSE Max({df[k][col] : k \in v})

AggMin(df, ks, col) ==
  LET v == Valid(df, ks, col) IN IF v = {} THEN NaN ELSE Min({df[k][col] : k \in v})

AggSum(df, ks, col) ==
  LET v == SortedSeq(Valid(df, ks, col))
  IN Sum([j \in 1..Len(v) |-> df[v[j]][col]], 1, Len(v))

\* (a variant without the .dropna())
BarAlways(bar) == TRUE

\* a weekly row survives .dropna() when none of its price columns is NaN
\* (the sum of Volume is never NaN)
BarComplete(bar) ==
  bar.Open # NaN /\ bar.High # NaN /\ bar.Low # NaN /\ bar.Close # NaN

\* btc.resample(...).agg({...}).dropna(): a function from week labels to bars
ResampleBars(df) ==
  LET bars == [w \in Bins(df) |->
                 LET ks == RowsOf(df, w)
                 IN [Open |-> AggFirst(df, ks, "Open"), High |-> AggMax(df, ks, "High"),
                     Low |-> AggMin(df, ks, "Low"), Close |-> AggLast(df, ks, "Close"),
                     Volume |-> AggSum(df, ks, "Volume")]]
  IN Restrict(bars, {w \in DOMAIN bars : BarComplete(bars[w])})

\* df['Close'].resample(...).last().dropna(): a function from week labels to closes
ResampleClose(df) ==
  LET last == [w \in Bins(df) |-> AggLast(df, RowsOf(df, w), "Close")]
  IN Restrict(last, {w \in DOMAIN last : last[w] # NaN})

WeeklyCloses(frames) == [n \in DOMAIN frames |-> ResampleClose(frames[n])]

\* (a variant without the .dropna(subset=['BTC']): every week of any symbol stays)
CombinedOuter(wc) ==
  LET union == UNION {DOMAIN wc[n] : n \in DOMAIN wc}
      cell(n, w) == IF w \in DOMAIN wc[n] THEN wc[n][w] ELSE NaN
      index == SortedSeq(union)
  IN [index |-> index,
      cols |-> [n \in DOMAIN wc |-> [k \in 1..Len(index) |-> cell(n, index[k])]]]

\* pd.DataFrame(weekly_closes).dropna(subset=['BTC']): the union of the weekly
\* indexes, NaN where a series has no value, then only the rows where BTC has one.
\* A frame is [index: ascending week labels, cols: name -> values by position].
Combined(wc) ==
  LET union == UNION {DOMAIN wc[n] : n \in DOMAIN wc}
      cell(n, w) == IF w \in DOMAIN wc[n] THEN wc[n][w] ELSE NaN
      index == SortedSeq({w \in union : cell("BTC", w) # NaN})
  IN [index |-> index,
      cols |-> [n \in DOMAIN wc |-> [k \in 1..Len(index) |-> cell(n, index[k])]]]

\* the fill pct_change() applies before dividing: forward fill when the installed
\* pandas pads (fill_method='pad', the default before pandas 3), nothing otherwise
Filled(col, pad) ==
  [k \in 1..Len(col) |->
     LET seen == {j \in 1..k : col[j] # NaN}
     IN IF col[k] # NaN \/ ~pad \/ seen = {} THEN col[k] ELSE col[Max(seen)]]

\* (a variant whose first row is a return of zero, as after .fillna(0))
PctChangeZeroFirst(col, pad) ==
  [k \in 1..Len(col) |->
     IF k = 1 THEN 0
     ELSE IF Filled(col, pad)[k] = NaN \/ Filled(col, pad)[k - 1] = NaN THEN NaN
     ELSE ((Filled(col, pad)[k] - Filled(col, pad)[k - 1]) * RetScale) \div Filled(col, pad)[k - 1]]

\* one column of combined.pct_change(): NaN in the first row and wherever the
\* (filled) value or its predecessor is missing
PctChange(col, pad) ==
  LET f == Filled(col, pad)
  IN [k \in 1..Len(col) |->
        IF k = 1 \/ f[k] = NaN \/ f[k - 1] = NaN THEN NaN
        ELSE ((f[k] - f[k - 1]) * RetScale) \div f[k - 1]]

\* combined.pct_change().dropna(): the rows in which every column has a return
Returns(comb, pad) ==
  LET pct == [n \in DOMAIN comb.cols |-> PctChange(comb.cols[n], pad)]
      keep == SortedSeq({k \in 1..Len(comb.index) : \A n \in DOMAIN pct : pct[n][k] # NaN})
  IN [index |-> [j \in 1..Len(keep) |-> comb.index[keep[j]]],
      cols |-> [n \in DOMAIN pct |-> [j \in 1..Len(keep) |-> pct[n][keep[j]]]]]

-----------------------------------------------------------------------------
(* generate_json: the document *)

\* round(float(v), 2) of a price in thousandths, None for NaN
clean(v) == IF v = NaN THEN Null ELSE ((v + 5) \div 10) * 10

\* (a variant without the NaN test)
clean_corr_unchecked(v) == v

\* round(float(v), 4) of a coefficient, None for NaN; a coefficient is kept
\* as its sign, which rounding to four decimals leaves as it is
clean_corr(v) == IF v = NaN THEN Null ELSE v

Sign(x) == IF x > 0 THEN 1 ELSE IF x < 0 THEN -1 ELSE 0

\* x.corr(y) over positions lo..hi (Pearson): NaN when the variance of x or of
\* y is zero, otherwise the sign of the covariance
corr(x, y, lo, hi) ==
  LET n == hi - lo + 1
      sx == Sum(x, lo, hi)
      sy == Sum(y, lo, hi)
      sxx == Sum([k \in lo..hi |-> x[k] * x[k]], lo, hi)
      syy == Sum([k \in lo..hi |-> y[k] * y[k]], lo, hi)
      sxy == Sum([k \in lo..hi |-> x[k] * y[k]], lo, hi)
  IN IF n * sxx - sx * sx = 0 \/ n * syy - sy * sy = 0 THEN NaN
     ELSE Sign(n * sxy - sx * sy)

\* the candle list: one entry per row of btc_weekly, in date order
Candles(bars) ==
  LET index == SortedSeq(DOMAIN bars)
  IN [k \in 1..Len(index) |->
        [t |-> index[k], o |-> clean(bars[index[k]].Open), h |-> clean(bars[index[k]].High),
         l |-> clean(bars[index[k]].Low), c |-> clean(bars[index[k]].Close)]]

\* (a variant that gives an entry keys for the loaded assets only)
EntryAssetsLoaded(columns) == Assets \cap columns

\* the asset keys every correlation entry gets: the loop runs over all of
\* CORRELATION_ASSETS and both of its branches assign entry[asset]
EntryAssets(columns) == Assets

\* entry[asset] at 1-based row k of the returns (i = k - 1) for one period
EntryValue(rets, asset, k, period) ==
  IF asset \in DOMAIN rets.cols /\ k - 1 >= period - 1
  THEN LET lo == k - period + 1
       IN IF Cardinality(lo..k) = period
          THEN clean_corr(corr(rets.cols["BTC"], rets.cols[asset], lo, k))
          ELSE Null
  ELSE Null

\* corr_list of one period: an entry {'t': date, asset: value, ...} per return row
CorrList(rets, period) ==
  [k \in 1..Len(rets.index) |->
     [key \in {"t"} \cup EntryAssets(DOMAIN rets.cols) |->
        IF key = "t" THEN rets.index[k] ELSE EntryValue(rets, key, k, period)]]

Periods == {CORRELATION_PERIODS[k] : k \in 1..Len(CORRELATION_PERIODS)}

Correlations(rets) == [p \in Periods |-> CorrList(rets, p)]

\* btc_weekly.index.max() and btc_weekly['Close'].iloc[-1] raise on an empty
\* btc_weekly (NaT.strftime, IndexError): nothing is written then
BuildRaises(bars) == DOMAIN bars = {}

\* the output dict of a generate_json that does not raise
Output(bars, rets) ==
  LET latest == Max(DOMAIN bars)
  IN [lastUpdated |-> latest,
      btcLatest |-> clean(bars[latest].Close),
      candles |-> Candles(bars),
      correlations |-> Correlations(rets)]

-----------------------------------------------------------------------------
(* Input data: the daily series the CSVs and the downloads are drawn from *)

\* the last close of week number w under a price pattern, in thousandths
Px(pat, w) ==
  CASE pat = "flat" -> 100003
    [] pat = "alt" -> IF w % 2 = 0 THEN 100003 ELSE 200006
    [] pat = "saw" -> IF w % 3 = 0 THEN 100003 ELSE 200006

\* the daily bar of day d: days are the weekdays (0 = Monday) that trade, the
\* close of a week's last trading day is Px, earlier days close higher;
\* noOpen / noPrice / noFirst are the weeks whose rows have an empty Open cell /
\* only empty price cells / an empty-priced first trading day
Bar(d, days, pat, noOpen, noPrice, noFirst, vol) ==
  LET w == d \div 7
      close == IF d % 7 = Max(days) THEN Px(pat, w) ELSE Px(pat, w) + 3000
      gone == w \in noPrice \/ (w \in noFirst /\ d % 7 = Min(days))
  IN [Date |-> d,
      Open |-> IF gone \/ w \in noOpen THEN NaN ELSE close - 1000,
      High |-> IF gone THEN NaN ELSE close + 2000,
      Low |-> IF gone THEN NaN ELSE close - 2000,
      Close |-> IF gone THEN NaN ELSE close,
      Volume |-> IF gone THEN vol ELSE 5]

\* the bars of the given weeks and weekdays in date order
Series(weeks, days, pat, noOpen, noPrice, noFirst, vol) ==
  LET dates == SortedSeq({7 * w + d : w \in weeks, d \in days})
  IN [k \in 1..Len(dates) |-> Bar(dates[k], days, pat, noOpen, noPrice, noFirst, vol)]

Reverse(s) == [k \in 1..Len(s) |-> s[Len(s) + 1 - k]]

\* one more weekly close than the shortest window has returns
ShortWeeks == CORRELATION_PERIODS[1] + 1

\* 14 weeks, one trading day a week, alternating closes
Short == Series(0..(ShortWeeks - 1), {0}, "alt", {}, {}, {}, 0)

\* the same 14 weeks, one trading day a week, another pattern
ShortSaw == Series(0..(ShortWeeks - 1), {1}, "saw", {}, {}, {}, 0)

\* the same 14 weeks of an unchanging close
Flat == Series(0..(ShortWeeks - 1), {2}, "flat", {}, {}, {}, 0)

\* weeks 1..16 without week 5, stored newest first
Gappy == Reverse(Series((1..(ShortWeeks + 2)) \ {5}, {0, 6}, "saw", {}, {}, {}, 0))

\* weeks 0 to 15 without week 11; week 3 has no Open, week 7 no prices at all,
\* week 9 an empty first day
Holes == Series((0..(ShortWeeks + 1)) \ {11}, {1, 4}, "alt", {3}, {7}, {9}, 0)

\* three weeks of rows without a single price
Blank == Series(0..2, {0}, "flat", {}, {0, 1, 2}, {}, 0)

\* MaxWeeks weeks, one trading day a week
Long == Series(0..(MaxWeeks - 1), {4}, "saw", {}, {}, {}, 0)

\* the CSV contents the aggregation stage is run on
AggFiles == {NoFile} \cup {File(r) : r \in {Short, ShortSaw, Flat, Gappy, Holes, Blank, Long}}

\* the assets whose CSV varies over AggFiles in the aggregation-only runs;
\* the CSVs of the other assets are all absent or all hold the same series
VariedAssets == {"SPY", "DXY"}

\* a CSV left by an earlier run: three weeks
Old == Series(0..2, {0, 2}, "alt", {}, {}, {}, 0)

\* what yf.download can return for a ticker: an exception ("raise"), an empty
\* frame, or four weeks of bars, one of them without prices and without Volume
Fresh == Series(1..4, {1, 3}, "saw", {}, {}, {2}, NaN)

Downloads == {[raised |-> TRUE, df |-> <<>>], [raised |-> FALSE, df |-> <<>>],
              [raised |-> FALSE, df |-> Fresh]}

\* a data.json left by an earlier run
OldJson == [exists |-> TRUE,
            docs |-> <<[lastUpdated |-> -7, btcLatest |-> 50000, candles |-> <<>>,
                        correlations |-> [p \in Periods |-> <<>>]]>>]

NoJson == [exists |-> FALSE, docs |-> <<>>]

NoFrames == [n \in {} |-> <<>>]

NoTable == [index |-> <<>>, cols |-> NoFrames]

NoFetch == [name |-> "", outcome |-> "none", df |-> <<>>]

-----------------------------------------------------------------------------
(* download_data *)

\* (a variant with one path for every name)
csv_path_shared(name) == "BTC"

\* os.path.join(DATA_DIR, f'{name}.csv'): every name has a file of its own
csv_path(name) == name

\* what one iteration does with the result of yf.download
Outcome(res) ==
  IF res.raised THEN "failed" ELSE IF res.df = <<>> THEN "empty" ELSE "written"

\* the rows df.to_csv writes: Volume with NaN replaced by 0
to_csv(df) == [k \in 1..Len(df) |-> [df[k] EXCEPT !.Volume = IF @ = NaN THEN 0 ELSE @]]

\* the files after one iteration: to_csv replaces the file at csv_path(name),
\* and nothing is written when the frame is empty or the try block raised
FilesAfter(files, name, res) ==
  IF Outcome(res) = "written"
  THEN [files EXCEPT ![csv_path(name)] = File(to_csv(res.df))]
  ELSE files

\* (a variant in which an exception ends the loop)
NextTickerStopsOnError(k, outcome) == IF outcome = "failed" THEN Len(TICKERS) + 1 ELSE k + 1

\* the loop goes on to the next ticker after `continue`, after the except
\* clause and after a write alike
NextTicker(k, outcome) == k + 1

\* one iteration of the loop over TICKERS
Download ==
  /\ pc = "download"
  /\ \E res \in Downloads :
       LET name == TICKERS[i]
           next == NextTicker(i, Outcome(res))
       IN /\ attempted' = Append(attempted, name)
          /\ fetch' = [name |-> name, outcome |-> Outcome(res), df |-> res.df]
          /\ csv' = FilesAfter(csv, name, res)
          /\ i' = next
          /\ pc' = IF next > Len(TICKERS) THEN "gen_load" ELSE "download"
  /\ UNCHANGED <<json, padFill, locals, genResult, jsonBefore, runs>>

-----------------------------------------------------------------------------
(* generate_json *)

\* (a variant that opens data.json for writing before it looks for BTC)
OnMissingPrimaryTruncates(j) == [exists |-> TRUE, docs |-> <<>>]

\* data.json when BTC is missing: the function prints and returns before any open()
OnMissingPrimary(j) == j

\* (a variant that opens data.json for writing before it computes)
OpenedEarly(j) == [exists |-> TRUE, docs |-> <<>>]

\* data.json while the document is computed: open() comes after the last computation
WhileBuilding(j) == j

\* (a variant that opens data.json with mode 'a')
AppendJson(j, doc) == [exists |-> TRUE, docs |-> Append(j.docs, doc)]

\* open(OUTPUT_JSON, 'w') and json.dump: the file holds the one new document
WriteJson(j, doc) == [exists |-> TRUE, docs |-> <<doc>>]

\* lines 74-86: read the CSVs that exist, return when BTC is not among them
GenLoad ==
  /\ pc = "gen_load"
  /\ runs' = runs + 1
  /\ jsonBefore' = json
  /\ LET frames == ReadAll(csv)
     IN IF "BTC" \in DOMAIN frames
        THEN /\ dfs' = frames
             /\ json' = json
             /\ genResult' = "none"
             /\ pc' = "gen_resample"
        ELSE /\ dfs' = frames
             /\ json' = OnMissingPrimary(json)
             /\ genResult' = "aborted"
             /\ pc' = "done"
  /\ UNCHANGED <<csv, padFill, i, attempted, fetch, btc_weekly, weekly_closes, combined,
                 returns, output>>

\* lines 88-98: BTC's weekly bars and every loaded symbol's weekly closes
GenResample ==
  /\ pc = "gen_resample"
  /\ btc_weekly' = ResampleBars(dfs["BTC"])
  /\ weekly_closes' = WeeklyCloses(dfs)
  /\ json' = WhileBuilding(json)
  /\ pc' = "gen_returns"
  /\ UNCHANGED <<csv, padFill, i, attempted, fetch, dfs, combined, returns, output,
                 genResult, jsonBefore, runs>>

\* lines 100-101: the combined table and its returns
GenReturns ==
  /\ pc = "gen_returns"
  /\ LET comb == Combined(weekly_closes)
     IN /\ combined' = comb
        /\ returns' = Returns(comb, padFill)
  /\ json' = WhileBuilding(json)
  /\ pc' = "gen_build"
  /\ UNCHANGED <<csv, padFill, i, attempted, fetch, dfs, btc_weekly, weekly_closes, output,
                 genResult, jsonBefore, runs>>

\* lines 114-159: candles, correlations and the output dict, or an exception
GenBuild ==
  /\ pc = "gen_build"
  /\ json' = WhileBuilding(json)
  /\ IF BuildRaises(btc_weekly)
     THEN /\ output' = <<>>
          /\ genResult' = "raised"
          /\ pc' = "done"
     ELSE /\ output' = <<Output(btc_weekly, returns)>>
          /\ genResult' = "none"
          /\ pc' = "gen_write"
  /\ UNCHANGED <<csv, padFill, i, attempted, fetch, dfs, btc_weekly, weekly_closes, combined,
                 returns, jsonBefore, runs>>

\* lines 161-162: write the document
GenWrite ==
  /\ pc = "gen_write"
  /\ json' = WriteJson(json, output[1])
  /\ genResult' = "written"
  /\ pc' = "done"
  /\ UNCHANGED <<csv, padFill, i, attempted, fetch, locals, jsonBefore, runs>>

NoLocals ==
  /\ dfs = NoFrames
  /\ btc_weekly = NoFrames
  /\ weekly_closes = NoFrames
  /\ combined = NoTable
  /\ returns = NoTable
  /\ output = <<>>

\* the aggregation stage is started again on the CSVs as they are
Rerun ==
  /\ pc = "done"
  /\ runs < MaxRuns
  /\ pc' = "gen_load"
  /\ dfs' = NoFrames
  /\ btc_weekly' = NoFrames
  /\ weekly_closes' = NoFrames
  /\ combined' = NoTable
  /\ returns' = NoTable
  /\ output' = <<>>
  /\ genResult' = "none"
  /\ UNCHANGED <<csv, json, padFill, i, attempted, fetch, jsonBefore, runs>>

-----------------------------------------------------------------------------
(* Specifications *)

InitLocals ==
  /\ padFill \in BOOLEAN
  /\ json \in {NoJson, OldJson}
  /\ jsonBefore = json
  /\ fetch = NoFetch
  /\ NoLocals
  /\ genResult = "none"
  /\ runs = 0

\* the whole script: download_data(), then generate_json(), on a data/ directory
\* left by an earlier run
Init ==
  /\ InitLocals
  /\ pc = "download"
  /\ i = 1
  /\ attempted = <<>>
  /\ csv \in {f \in [Names -> {NoFile, File(Old), File(Blank)}] :
                \A n \in Assets : f[n] # File(Blank)}

Next == Download \/ GenLoad \/ GenResample \/ GenReturns \/ GenBuild \/ GenWrite

Spec == Init /\ [][Next]_vars

\* the aggregation stage alone, entered when download_data has returned; the
\* CSVs of the assets outside VariedAssets all hold the same member of rest
AggInit(rest) ==
  /\ InitLocals
  /\ pc = "gen_load"
  /\ i = Len(TICKERS) + 1
  /\ attempted = TICKERS
  /\ \E v \in [{"BTC"} \cup VariedAssets -> AggFiles], r \in rest :
       csv = [n \in Names |-> IF n \in DOMAIN v THEN v[n] ELSE r]

InitAgg == AggInit({NoFile, File(ShortSaw)})

NextAgg == GenLoad \/ GenResample \/ GenReturns \/ GenBuild \/ GenWrite

SpecAgg == InitAgg /\ [][NextAgg]_vars

\* the aggregation stage started again and again on the CSVs as they are
NextRerun == GenLoad \/ GenResample \/ GenReturns \/ GenBuild \/ GenWrite \/ Rerun

InitRerun == AggInit({NoFile})

SpecRerun == InitRerun /\ [][NextRerun]_vars

-----------------------------------------------------------------------------
(* What the properties speak of, read off the files themselves *)

Written == pc = "done" /\ genResult = "written"

\* the document in data.json after a run that wrote it
Doc == json.docs[1]

RowSet(f) == {f.rows[k] : k \in 1..Len(f.rows)}

\* the most recent Monday on or before day d
Monday(d) == CHOOSE m \in (d - 6)..d : m % 7 = 0

\* the week buckets [Monday, next Monday) that hold at least one daily row
Buckets(f) == {Monday(r.Date) : r \in RowSet(f)}

\* bucket w has a row with a value in column col
HasValue(f, w, col) == \E r \in RowSet(f) : Monday(r.Date) = w /\ r[col] # NaN

\* the weeks in which the file has a close
CloseWeeks(f) == {w \in Buckets(f) : HasValue(f, w, "Close")}

\* the weeks in which the file has an open, a high, a low and a close
PricedWeeks(f) ==
  {w \in Buckets(f) : \A col \in {"Open", "High", "Low", "Close"} : HasValue(f, w, col)}

\* the value of column col on the latest (dir = 1) or earliest (dir = -1) day
\* of bucket w that has one
EdgeValue(f, w, col, dir) ==
  LET rs == {r \in RowSet(f) : Monday(r.Date) = w /\ r[col] # NaN}
  IN (CHOOSE r \in rs : \A q \in rs : dir * q.Date <= dir * r.Date)[col]

\* the largest (dir = 1) or smallest (dir = -1) value of column col in bucket w
ExtremeValue(f, w, col, dir) ==
  LET vs == {r[col] : r \in {q \in RowSet(f) : Monday(q.Date) = w /\ q[col] # NaN}}
  IN CHOOSE v \in vs : \A u \in vs : dir * u <= dir * v

\* a price in thousandths to the nearest hundredth
Cents(v) == CHOOSE c \in (v - 4)..(v + 5) : c % 10 = 0

\* the candle of bucket w of the BTC file
CandleOf(f, w) ==
  [t |-> w, o |-> Cents(EdgeValue(f, w, "Open", -1)), h |-> Cents(ExtremeValue(f, w, "High", 1)),
   l |-> Cents(ExtremeValue(f, w, "Low", -1)), c |-> Cents(EdgeValue(f, w, "Close", 1))]

Loaded == {a \in Assets : csv[a].exists}

-----------------------------------------------------------------------------
(* C1 *)

\* C1: when BTC's CSV does not exist at the start of generate_json, the run ends
\* at once, reports the abort and leaves data.json (present or absent) as it was,
\* whatever the other CSVs hold.
C1_MissingPrimaryKeepsJson ==
  [][(pc = "gen_load" /\ ~csv["BTC"].exists)
       => (json' = json /\ pc' = "done" /\ genResult' = "aborted")]_vars

\* a run aborted for want of BTC.csv, with other CSVs present and an earlier data.json
C1_Witness ==
  /\ pc = "done" /\ genResult = "aborted"
  /\ ~csv["BTC"].exists /\ Loaded # {}
  /\ jsonBefore = OldJson /\ json = OldJson

-----------------------------------------------------------------------------
(* C2 *)

\* the candles the BTC file alone determines: one per priced week, in date order
CandlesOfFile(f) ==
  LET weeks == SortedSeq(PricedWeeks(f))
  IN [k \in 1..Len(weeks) |-> CandleOf(f, weeks[k])]

\* C2 as claimed: an asset whose CSV is absent has no key in any correlation
\* entry of any window length, and the candles are what BTC's CSV alone gives.
C2_AbsentAssetHasNoKey ==
  Written =>
    /\ \A a \in Assets \ Loaded : \A p \in Periods :
         \A k \in 1..Len(Doc.correlations[p]) : a \notin DOMAIN Doc.correlations[p][k]
    /\ Doc.candles = CandlesOfFile(csv["BTC"])

\* C2 as amended: an asset whose CSV is absent has its key in every correlation
\* entry of every window length, with the value null, and the candles are what
\* BTC's CSV alone gives, whichever other CSVs are present.
C2_AbsentAssetIsNull ==
  Written =>
    /\ \A a \in Assets \ Loaded : \A p \in Periods :
         \A k \in 1..Len(Doc.correlations[p]) :
           a \in DOMAIN Doc.correlations[p][k] /\ Doc.correlations[p][k][a] = Null
    /\ Doc.candles = CandlesOfFile(csv["BTC"])

\* a document with correlation rows, written with one asset absent and another
\* asset correlated over a full window
C2_Witness ==
  /\ Written
  /\ Assets \ Loaded # {}
  /\ \E a \in Loaded : \E k \in 1..Len(Doc.correlations[CORRELATION_PERIODS[1]]) :
       Doc.correlations[CORRELATION_PERIODS[1]][k][a] # Null

-----------------------------------------------------------------------------
(* C3 *)

\* the 1-based positions at which asset a has a coefficient in a correlation list
NonNull(list, a) == {k \in 1..Len(list) : list[k][a] # Null}

\* asset a's (or BTC's) returns are all the same in the window of W rows ending at row k
WindowConst(a, k, W) == \A j \in (k - W + 1)..k : returns.cols[a][j] = returns.cols[a][k]

\* BTC has exactly 14 weekly closes and asset a, the only asset with a CSV, has
\* closes in the same weeks; the document was written
Scenario14(a) ==
  /\ Written
  /\ Loaded = {a}
  /\ Cardinality(DOMAIN weekly_closes["BTC"]) = CORRELATION_PERIODS[1] + 1
  /\ DOMAIN weekly_closes[a] = DOMAIN weekly_closes["BTC"]

\* C3 as claimed: in that scenario the 13-week list has exactly two coefficients
\* for the asset, at 0-based positions 12 and 13, and the 26- and 52-week lists
\* have none.
C3_TwoCoefficients ==
  \A a \in Assets : Scenario14(a) =>
    /\ NonNull(Doc.correlations[CORRELATION_PERIODS[1]], a)
         = {CORRELATION_PERIODS[1], CORRELATION_PERIODS[1] + 1}
    /\ NonNull(Doc.correlations[CORRELATION_PERIODS[2]], a) = {}
    /\ NonNull(Doc.correlations[CORRELATION_PERIODS[3]], a) = {}

\* C3 as amended: in that scenario every list has 13 entries (one per return);
\* the 13-week list has null at 0-based positions 0..11 and at position 12 a
\* coefficient, unless BTC's or the asset's 13 returns are all equal (then null);
\* the 26- and 52-week lists are all null.
C3_OneCoefficient ==
  \A a \in Assets : Scenario14(a) =>
    /\ \A p \in Periods : Len(Doc.correlations[p]) = CORRELATION_PERIODS[1]
    /\ NonNull(Doc.correlations[CORRELATION_PERIODS[1]], a) \subseteq {CORRELATION_PERIODS[1]}
    /\ (CORRELATION_PERIODS[1] \in NonNull(Doc.correlations[CORRELATION_PERIODS[1]], a))
         <=> ~(WindowConst(a, CORRELATION_PERIODS[1], CORRELATION_PERIODS[1])
                 \/ WindowConst("BTC", CORRELATION_PERIODS[1], CORRELATION_PERIODS[1]))
    /\ NonNull(Doc.correlations[CORRELATION_PERIODS[2]], a) = {}
    /\ NonNull(Doc.correlations[CORRELATION_PERIODS[3]], a) = {}

\* the scenario with a coefficient at position 12
C3_Witness ==
  \E a \in Assets :
    /\ Scenario14(a)
    /\ NonNull(Doc.correlations[CORRELATION_PERIODS[1]], a) = {CORRELATION_PERIODS[1]}

-----------------------------------------------------------------------------
(* C4 *)

\* the BTC week before week t in the combined table
WeekBefore(t) == Max({w \in DOMAIN weekly_closes["BTC"] : w < t})

\* asset a lacks a return observation in the window of W rows ending at row k of
\* list: it has no close in one of the window's weeks or in the week before it
GapInWindow(list, a, k, W) ==
  \E j \in (k - W + 1)..k :
    \/ list[j].t \notin DOMAIN weekly_closes[a]
    \/ WeekBefore(list[j].t) \notin DOMAIN weekly_closes[a]

\* C4 as claimed: for every window length W, position i and asset with a CSV,
\* the value is null when i < W-1, and when i >= W-1 it is null only if the
\* asset has a gap inside the window of W rows ending at i.
C4_NullOnlyForGap ==
  Written =>
    \A p \in Periods : \A a \in Loaded : \A k \in 1..Len(Doc.correlations[p]) :
      /\ k - 1 < p - 1 => Doc.correlations[p][k][a] = Null
      /\ (k - 1 >= p - 1 /\ Doc.correlations[p][k][a] = Null)
           => GapInWindow(Doc.correlations[p], a, k, p)

\* C4 as amended: for every window length W, position i and asset, the value is
\* null when i < W-1; when i >= W-1 it is null exactly when the asset's CSV was
\* not loaded or the coefficient is undefined (BTC's or the asset's returns are
\* all equal in the window), and a coefficient otherwise; no row of the returns
\* holds a missing return, so no window has a gap.
C4_NullForUndefined ==
  Written =>
    /\ \A n \in DOMAIN returns.cols : \A k \in 1..Len(returns.index) : returns.cols[n][k] # NaN
    /\ \A p \in Periods : \A a \in Assets : \A k \in 1..Len(Doc.correlations[p]) :
         LET v == Doc.correlations[p][k][a]
         IN /\ k - 1 < p - 1 => v = Null
            /\ k - 1 >= p - 1 =>
                 /\ v = Null <=> (a \notin Loaded \/ WindowConst(a, k, p) \/ WindowConst("BTC", k, p))
                 /\ v # Null => v \in {-1, 0, 1}

\* a document in which the longest window has a coefficient for one asset and
\* the shortest window has a null at a full window for another asset with a CSV
\* and no gap
C4_Witness ==
  /\ Written
  /\ \E a \in Loaded : NonNull(Doc.correlations[CORRELATION_PERIODS[3]], a) # {}
  /\ \E a \in Loaded : \E k \in CORRELATION_PERIODS[1]..Len(Doc.correlations[CORRELATION_PERIODS[1]]) :
       /\ Doc.correlations[CORRELATION_PERIODS[1]][k][a] = Null
       /\ ~GapInWindow(Doc.correlations[CORRELATION_PERIODS[1]], a, k, CORRELATION_PERIODS[1])

-----------------------------------------------------------------------------
(* C5 *)

\* BTC's weekly bars have been computed in the current run
BarsComputed ==
  \/ pc \in {"gen_returns", "gen_build", "gen_write"}
  \/ pc = "done" /\ genResult \in {"raised", "written"}

\* C5 as claimed: the weekly bars are exactly the buckets that hold at least one
\* daily row of BTC's CSV, each labelled with its Monday, and the document has
\* one candle per such bucket.
C5_BarPerBucketWithRows ==
  /\ BarsComputed => DOMAIN btc_weekly = Buckets(csv["BTC"])
  /\ Written => Len(Doc.candles) = Cardinality(Buckets(csv["BTC"]))

\* C5 as amended: the weekly bars are exactly the buckets [Monday, next Monday)
\* in which BTC's CSV has at least one open, one high, one low and one close
\* (a bucket without daily rows, or whose rows leave one of these columns
\* empty, gets no bar), each labelled with its Monday, and the document has
\* one candle per bar, in ascending date order.
C5_BarPerPricedBucket ==
  /\ BarsComputed =>
       /\ DOMAIN btc_weekly = PricedWeeks(csv["BTC"])
       /\ \A w \in DOMAIN btc_weekly : w % 7 = 0 /\ w \in Buckets(csv["BTC"])
  /\ Written =>
       /\ Len(Doc.candles) = Cardinality(PricedWeeks(csv["BTC"]))
       /\ {Doc.candles[k].t : k \in 1..Len(Doc.candles)} = PricedWeeks(csv["BTC"])
       /\ \A k \in 1..(Len(Doc.candles) - 1) : Doc.candles[k].t < Doc.candles[k + 1].t

\* candles written from a CSV with a week without rows between its first and
\* last week and with a week whose rows have no usable prices
C5_Witness ==
  /\ Written
  /\ Len(Doc.candles) > 0
  /\ Buckets(csv["BTC"]) \ PricedWeeks(csv["BTC"]) # {}
  /\ \E w \in Bins(dfs["BTC"]) : w \notin Buckets(csv["BTC"])

-----------------------------------------------------------------------------
(* C6 *)

\* C6: whatever fails, the loop attempts the tickers in their configured order,
\* each once, never stops early, and leaves to the aggregation stage only when
\* all six were attempted.
C6_EveryTickerAttempted ==
  /\ attempted = SubSeq(TICKERS, 1, Len(attempted))
  /\ pc = "download" => (i = Len(attempted) + 1 /\ i <= Len(TICKERS))
  /\ pc # "download" => (attempted = TICKERS /\ (pc = "gen_load" \/ runs = 1))

\* generate_json has run after a fetch stage in which no download was written
\* and the last one raised
C6_Witness ==
  /\ pc = "done" /\ runs = 1
  /\ fetch.outcome = "failed"
  /\ \A n \in Names : csv[n] # File(to_csv(Fresh))

-----------------------------------------------------------------------------
(* C7 *)

\* doc is the whole output document of the current run
Complete(doc) ==
  /\ DOMAIN doc = {"lastUpdated", "btcLatest", "candles", "correlations"}
  /\ doc.lastUpdated \in DOMAIN btc_weekly /\ doc.btcLatest # Null
  /\ Len(doc.candles) = Cardinality(DOMAIN btc_weekly)
  /\ DOMAIN doc.correlations = Periods
  /\ \A p \in Periods :
       /\ Len(doc.correlations[p]) = Len(returns.index)
       /\ \A k \in 1..Len(doc.correlations[p]) : DOMAIN doc.correlations[p][k] = {"t"} \cup Assets

\* C7: data.json changes only in the write that follows the computation, and
\* then to exactly the complete document; a run that raises while computing
\* leaves data.json as it was, and a finished run leaves either the prior
\* content or the complete document.
C7_NoPartialJson ==
  [][/\ json' # json =>
          (pc = "gen_write" /\ Complete(output[1]) /\ json' = [exists |-> TRUE, docs |-> output])
     /\ genResult' = "raised" => json' = jsonBefore'
     /\ pc' = "done" =>
          (json' = jsonBefore' \/ (genResult' = "written" /\ json'.docs = output'))]_vars

\* a run that raised while computing, with an earlier data.json still in place
C7_Witness ==
  /\ pc = "done" /\ genResult = "raised"
  /\ jsonBefore = OldJson /\ json = OldJson

-----------------------------------------------------------------------------
(* C8 *)

\* C8: one iteration of the download loop leaves every other name's CSV as it
\* was; it leaves the name's own CSV as it was when the frame is empty or the
\* iteration raised; otherwise the name's CSV holds exactly the fetched bars
\* (Volume filled), none of the old rows.
C8_OnlyOwnCsv ==
  [][pc = "download" =>
       /\ \A n \in Names \ {TICKERS[i]} : csv'[n] = csv[n]
       /\ fetch'.outcome \in {"empty", "failed"} => csv'[TICKERS[i]] = csv[TICKERS[i]]
       /\ fetch'.outcome = "written" =>
            /\ csv'[TICKERS[i]].exists
            /\ Len(csv'[TICKERS[i]].rows) = Len(fetch'.df)
            /\ \A k \in 1..Len(fetch'.df) :
                 /\ csv'[TICKERS[i]].rows[k].Date = fetch'.df[k].Date
                 /\ csv'[TICKERS[i]].rows[k].Close = fetch'.df[k].Close
                 /\ csv'[TICKERS[i]].rows[k].Volume # NaN]_vars

\* SPY's old CSV was just replaced while BTC's and QQQ's old CSVs are in place
C8_Witness ==
  /\ fetch.name = "SPY" /\ fetch.outcome = "written"
  /\ csv["SPY"].rows # Old
  /\ csv["BTC"] = File(Old) /\ csv["QQQ"] = File(Old)

-----------------------------------------------------------------------------
(* C9 *)

\* C9: when generate_json has run again on unchanged CSVs, data.json is what
\* the run before left.
C9_SecondRunSameJson ==
  (pc = "done" /\ runs >= 2) => json = jsonBefore

\* a second run that wrote the document
C9_Witness ==
  /\ pc = "done" /\ runs = 2 /\ genResult = "written"
  /\ Len(Doc.candles) > 0

-----------------------------------------------------------------------------
(* C10 *)

\* the combined table and the returns have been computed in the current run
TablesComputed ==
  \/ pc \in {"gen_build", "gen_write"}
  \/ pc = "done" /\ genResult \in {"raised", "written"}

Elems(seq) == {seq[k] : k \in 1..Len(seq)}

\* the combined table has exactly BTC's weeks, and a cell is empty exactly where
\* the symbol has no close in that week
CombinedKeepsGaps ==
  /\ Elems(combined.index) = DOMAIN weekly_closes["BTC"]
  /\ \A n \in DOMAIN weekly_closes : \A k \in 1..Len(combined.index) :
       combined.cols[n][k] = NaN <=> combined.index[k] \notin DOMAIN weekly_closes[n]

\* symbol n has a value pct_change can use in row k of the combined table: a
\* close of its own, or with forward fill one of an earlier row
Usable(n, k) ==
  \/ combined.cols[n][k] # NaN
  \/ padFill /\ \E j \in 1..(k - 1) : combined.cols[n][j] # NaN

\* C10 as claimed: the combined table has exactly BTC's weeks, with gaps kept,
\* and the returns (and each correlation list) have one row for every week of
\* the combined table except the first.
C10_OnlyFirstRowDropped ==
  TablesComputed =>
    /\ CombinedKeepsGaps
    /\ Elems(returns.index) = Elems(combined.index) \ {combined.index[k] : k \in {1} \cap DOMAIN combined.index}
    /\ Written => \A p \in Periods : Len(Doc.correlations[p]) = Len(combined.index) - 1

\* C10 as amended: the combined table has exactly BTC's weeks, with gaps kept;
\* the returns (and each correlation list) have one row, in date order, for
\* exactly those weeks of the combined table, the first excepted, in which every
\* loaded symbol has a usable value in that row and in the row before; so only
\* the first row is removed when no loaded asset has a gap.
C10_GapRowsDropped ==
  TablesComputed =>
    /\ CombinedKeepsGaps
    /\ Elems(returns.index) =
         {combined.index[k] : k \in {j \in 2..Len(combined.index) :
            \A n \in DOMAIN combined.cols : Usable(n, j) /\ Usable(n, j - 1)}}
    /\ \A k \in 1..(Len(returns.index) - 1) : returns.index[k] < returns.index[k + 1]
    /\ (\A n \in DOMAIN combined.cols : \A k \in 1..Len(combined.index) : combined.cols[n][k] # NaN)
         => Len(returns.index) = Max({Len(combined.index) - 1, 0})
    /\ Written => \A p \in Periods :
         /\ Len(Doc.correlations[p]) = Len(returns.index)
         /\ \A k \in 1..Len(returns.index) : Doc.correlations[p][k].t = returns.index[k]

\* a document written from returns that lost a row to an asset's gap, and the
\* combined table kept that gap
C10_Witness ==
  /\ Written
  /\ Len(returns.index) > 0
  /\ Len(returns.index) < Len(combined.index) - 1
  /\ \E a \in Loaded : \E k \in 2..(Len(combined.index) - 1) :
       combined.cols[a][k] = NaN /\ combined.cols[a][k - 1] # NaN

====
